---- MODULE Spec2Model ----
(***************************************************************************)
(* Model of aws-watchdog (src/watchdog.py): the ConfigFetcher cache, the   *)
(* startup check, the supervision loop run_daemon and the restart worker   *)
(* threads restart_service_with_retries.                                   *)
(***************************************************************************)
EXTENDS Integers, Sequences, FiniteSets, TLC

(* ------------------------------ bounds --------------------------------- *)
\* wall clock values above this are not explored
MaxTime == 1400
\* number of supervision cycles explored
MaxCycles == 2
\* number of worker threads ever started
MaxWorkers == 2

(* ------------------------- program constants --------------------------- *)
\* watchdog.py:53  age in seconds above which get_config fetches again
StaleAfter == 900
\* watchdog.py:100 iteration_time = 10
iteration_time == 10
\* watchdog.py:38/39  None for _lastUpdated;  0 stands for None for _config
NoTime == -1
NoConfig == 0

(* ------------------------- environment inputs -------------------------- *)
\* rows the DynamoDB table may hold under the daemon's id
ConfigRows ==
  << [listOfServices |-> <<"a", "b">>, numOfAttempts |-> 2,
      numOfSecWait |-> 5, numOfSecCheck |-> 10],
     [listOfServices |-> <<"a", "a">>, numOfAttempts |-> 1,
      numOfSecWait |-> 0, numOfSecCheck |-> 30],
     [listOfServices |-> <<"b">>, numOfAttempts |-> 3,
      numOfSecWait |-> 5, numOfSecCheck |-> 10] >>
ConfigIds == 1..Len(ConfigRows)
\* outcomes of table.get_item + response['Item']
FetchOutcomes == {"ok", "notfound", "unreachable"}
\* delays other than the end-of-cycle sleep (blocking calls, pid lock wait)
Delays == {450}

VARIABLES
  now,              \* time.time()
  pc,               \* position of the main thread
  exitStatus,       \* process exit status set by exit(1); -1 while running
  error,            \* exception that ended the main thread, "none" otherwise
  _config,          \* ConfigFetcher._config (row id, NoConfig for None)
  _lastUpdated,     \* ConfigFetcher._lastUpdated (NoTime for None)
  config,           \* run_daemon's local `config` (NoConfig while unbound)
  running_threads,  \* run_daemon's dict: service name -> worker index
  idx,              \* position of the `for service_name in services` loop
  cycle,            \* number of the current iteration of `while True`
  cycleLog,         \* records the main thread logged in the current cycle
  workers,          \* every thread ever started, in start order
  lastCall,         \* observation of the latest get_config call
  lastProbe,        \* observation of the latest loop body (lines 112-122)
  sleptFor          \* argument of the latest time.sleep of the main thread

vars == <<now, pc, exitStatus, error, _config, _lastUpdated, config,
          running_threads, idx, cycle, cycleLog, workers, lastCall,
          lastProbe, sleptFor>>

fetcherVars == <<_config, _lastUpdated>>
loopVars == <<running_threads, idx, cycleLog, lastProbe, sleptFor>>

NoCall == [at |-> NoTime, prevUpdated |-> NoTime, prevConfig |-> NoConfig,
           outcome |-> "nofetch", fetched |-> 0, raised |-> "none",
           returned |-> NoConfig, caller |-> "none"]
NoProbe == [name |-> "", probed |-> FALSE, ok |-> FALSE, hadEntry |-> FALSE,
            entryAlive |-> FALSE, cycle |-> 0]

(* --------------------------- ConfigFetcher ----------------------------- *)
\* variant: the age test written with >= instead of >
IsStale_AtLeast(lastUpdated, t) ==
  lastUpdated = NoTime \/ t - lastUpdated >= StaleAfter

\* watchdog.py:52-53  the condition under which get_config fetches
IsStale(lastUpdated, t) ==
  lastUpdated = NoTime \/ t - lastUpdated > StaleAfter

\* variant: a missing row is stored as None (response.get('Item')) and
\* stamped, instead of raising before any assignment
_fetch_config_StoresMissing(outcome, row, cfg, lastUpdated, t) ==
  CASE outcome = "ok" ->
         [config |-> row, lastUpdated |-> t, raised |-> "none"]
    [] outcome = "notfound" ->
         [config |-> NoConfig, lastUpdated |-> t, raised |-> "none"]
    [] OTHER ->
         [config |-> cfg, lastUpdated |-> lastUpdated,
          raised |-> "EndpointConnectionError"]

\* variant: the timestamp is taken before the request and kept when the
\* store cannot be reached
_fetch_config_StampsFirst(outcome, row, cfg, lastUpdated, t) ==
  CASE outcome = "ok" ->
         [config |-> row, lastUpdated |-> t, raised |-> "none"]
    [] outcome = "notfound" ->
         [config |-> cfg, lastUpdated |-> t, raised |-> "KeyError"]
    [] OTHER ->
         [config |-> cfg, lastUpdated |-> t,
          raised |-> "EndpointConnectionError"]

\* watchdog.py:41-44  _fetch_config: the fetcher's fields and the exception
\* after one remote fetch with the given outcome (row is what the table holds)
_fetch_config(outcome, row, cfg, lastUpdated, t) ==
  CASE outcome = "ok" ->
         [config |-> row, lastUpdated |-> t, raised |-> "none"]
    [] outcome = "notfound" ->
         [config |-> cfg, lastUpdated |-> lastUpdated, raised |-> "KeyError"]
    [] OTHER ->
         [config |-> cfg, lastUpdated |-> lastUpdated,
          raised |-> "EndpointConnectionError"]

\* watchdog.py:46-56  get_config: fields, exception, return value and the
\* number of remote fetches performed
get_config(outcome, row, cfg, lastUpdated, t) ==
  IF IsStale(lastUpdated, t)
  THEN LET f == _fetch_config(outcome, row, cfg, lastUpdated, t)
       IN [config |-> f.config, lastUpdated |-> f.lastUpdated,
           raised |-> f.raised, fetched |-> 1,
           returned |-> IF f.raised = "none" THEN f.config ELSE NoConfig]
  ELSE [config |-> cfg, lastUpdated |-> lastUpdated, raised |-> "none",
        fetched |-> 0, returned |-> cfg]

\* what one get_config call saw and did: the clock and the fetcher's fields
\* before it, the store's answer if it was asked, and the call's result
CallRecord(r, who, outcome) ==
  [at |-> now, prevUpdated |-> _lastUpdated, prevConfig |-> _config,
   outcome |-> IF r.fetched = 1 THEN outcome ELSE "nofetch",
   fetched |-> r.fetched, raised |-> r.raised, returned |-> r.returned,
   caller |-> who]

(* ------------------------------ startup -------------------------------- *)
\* variant: only the KeyError handler exits
StartupNext_OnlyKeyError(raised) ==
  IF raised = "KeyError" THEN "exited" ELSE "daemonize"

\* watchdog.py:190-200  what check_for_config does with get_config's result
StartupNext(raised) ==
  IF raised = "none" THEN "daemonize" ELSE "exited"

\* watchdog.py:212-216  main: build the fetcher, check_for_config
CheckForConfig ==
  /\ pc = "startup"
  /\ \E outcome \in FetchOutcomes, row \in ConfigIds :
       LET r == get_config(outcome, row, _config, _lastUpdated, now) IN
         /\ _config' = r.config
         /\ _lastUpdated' = r.lastUpdated
         /\ lastCall' = CallRecord(r, "check_for_config", outcome)
         /\ pc' = StartupNext(r.raised)
         /\ exitStatus' = IF StartupNext(r.raised) = "exited" THEN 1 ELSE -1
  /\ UNCHANGED <<now, error, config, cycle, workers>>
  /\ UNCHANGED loopVars

\* watchdog.py:219-221, 90-93  daemonize, enter run_daemon
EnterDaemon ==
  /\ pc = "daemonize"
  /\ pc' = "get_config"
  /\ running_threads' = <<>>
  /\ UNCHANGED <<now, exitStatus, error, config, idx, cycle, cycleLog,
                 workers, lastCall, lastProbe, sleptFor>>
  /\ UNCHANGED fetcherVars

(* ------------------------------ run_daemon ----------------------------- *)
WarnRecord ==
  [level |-> "warn", text |-> "Can't update configuration", name |-> ""]
DownRecord(n) == [level |-> "info", text |-> "is down", name |-> n]

\* watchdog.py:94-103  top of the loop body: get_config under the except
\* clause, then the reads of config[...]
GetConfig ==
  /\ pc = "get_config"
  /\ cycle < MaxCycles
  /\ cycle' = cycle + 1
  /\ \E outcome \in FetchOutcomes, row \in ConfigIds :
       LET r == get_config(outcome, row, _config, _lastUpdated, now)
           newLocal == IF r.raised = "none" THEN r.returned ELSE config
       IN
         /\ _config' = r.config
         /\ _lastUpdated' = r.lastUpdated
         /\ lastCall' = CallRecord(r, "run_daemon", outcome)
         /\ config' = newLocal
         /\ cycleLog' = IF r.raised = "EndpointConnectionError"
                        THEN <<WarnRecord>> ELSE <<>>
         /\ IF r.raised = "KeyError"
            THEN pc' = "crashed" /\ error' = "KeyError"
            ELSE IF newLocal = NoConfig
            THEN pc' = "crashed" /\ error' = "UnboundLocalError"
            ELSE pc' = "reap" /\ error' = error
  /\ idx' = 1
  /\ UNCHANGED <<now, exitStatus, running_threads, workers, lastProbe,
                 sleptFor>>

\* threading.Thread.is_alive
is_alive(w) == workers[w].pc # "done"

\* variant: the registry is emptied at the top of every cycle
Reap_DropsAll ==
  /\ pc = "reap"
  /\ running_threads' = <<>>
  /\ pc' = "probe"
  /\ UNCHANGED <<now, exitStatus, error, config, idx, cycle, cycleLog,
                 workers, lastCall, lastProbe, sleptFor>>
  /\ UNCHANGED fetcherVars

\* watchdog.py:105-109  drop the entries whose thread is no longer alive
Reap ==
  /\ pc = "reap"
  /\ running_threads' =
       [n \in {m \in DOMAIN running_threads : is_alive(running_threads[m])}
          |-> running_threads[n]]
  /\ pc' = "probe"
  /\ UNCHANGED <<now, exitStatus, error, config, idx, cycle, cycleLog,
                 workers, lastCall, lastProbe, sleptFor>>
  /\ UNCHANGED fetcherVars

\* variant: the registry test comes first and short-circuits the probe
ProbeIssued_SkipsRegistered(name, registry) ==
  name \notin DOMAIN registry

\* watchdog.py:112  run_service_command(service_name, 'status') is the left
\* operand of `and`: whether the status command is run for this service
ProbeIssued(name, registry) ==
  TRUE

\* variant: the registry test is dropped
ShouldSpawn_NoRegistryCheck(ok, name, registry) ==
  ~ok

\* variant: the `not` in front of the status probe is dropped
ShouldSpawn_Inverted(ok, name, registry) ==
  ok /\ name \notin DOMAIN registry

\* variant: the guard looks at the registered thread's liveness instead of
\* at the presence of the entry
ShouldSpawn_ChecksLiveness(ok, name, registry) ==
  ~ok /\ (name \notin DOMAIN registry \/ ~is_alive(registry[name]))

\* watchdog.py:112-113  the condition under which a worker is started
ShouldSpawn(ok, name, registry) ==
  ~ok /\ name \notin DOMAIN registry

\* watchdog.py:117-121, 160  the thread object right after child.start()
NewWorker(name, retries, wait_time) ==
  [name |-> name, retries |-> retries, wait_time |-> wait_time,
   tries |-> 1, pc |-> IF retries >= 1 THEN "attempt" ELSE "done",
   cmds |-> 0, sleeps |-> 0, succeededAt |-> 0,
   outcome |-> [text |-> "none", times |-> 0], born |-> cycle]

services == ConfigRows[config].listOfServices

\* watchdog.py:111-122  one iteration of `for service_name in services`
ProbeService ==
  /\ pc = "probe"
  /\ idx <= Len(services)
  /\ \E ok \in BOOLEAN :
       LET service_name == services[idx]
           retries == ConfigRows[config].numOfAttempts
           retry_wait_time == ConfigRows[config].numOfSecWait
           hadEntry == service_name \in DOMAIN running_threads
           issued == ProbeIssued(service_name, running_threads)
       IN
         /\ ~issued => ~ok
         /\ lastProbe' = [name |-> service_name, probed |-> issued,
                          ok |-> ok, hadEntry |-> hadEntry,
                          entryAlive |-> hadEntry
                             /\ is_alive(running_threads[service_name]),
                          cycle |-> cycle]
         /\ IF ShouldSpawn(ok, service_name, running_threads)
            THEN /\ Len(workers) < MaxWorkers
                 /\ cycleLog' = Append(cycleLog, DownRecord(service_name))
                 /\ workers' = Append(workers,
                       NewWorker(service_name, retries, retry_wait_time))
                 /\ running_threads' = (service_name :> Len(workers) + 1)
                                          @@ running_threads
            ELSE UNCHANGED <<cycleLog, workers, running_threads>>
  /\ idx' = idx + 1
  /\ UNCHANGED <<now, pc, exitStatus, error, config, cycle, lastCall,
                 sleptFor>>
  /\ UNCHANGED fetcherVars

\* variant: the threads started so far are joined before the sleep
Sleep_AfterJoin ==
  /\ pc = "probe"
  /\ idx > Len(services)
  /\ \A w \in 1..Len(workers) : workers[w].pc = "done"
  /\ now + iteration_time <= MaxTime
  /\ now' = now + iteration_time
  /\ sleptFor' = iteration_time
  /\ pc' = "get_config"
  /\ UNCHANGED <<exitStatus, error, config, running_threads, idx, cycle,
                 cycleLog, workers, lastCall, lastProbe>>
  /\ UNCHANGED fetcherVars

\* watchdog.py:124  time.sleep(iteration_time), back to the top of the loop
Sleep ==
  /\ pc = "probe"
  /\ idx > Len(services)
  /\ now + iteration_time <= MaxTime
  /\ now' = now + iteration_time
  /\ sleptFor' = iteration_time
  /\ pc' = "get_config"
  /\ UNCHANGED <<exitStatus, error, config, running_threads, idx, cycle,
                 cycleLog, workers, lastCall, lastProbe>>
  /\ UNCHANGED fetcherVars

(* ------------------------- restart worker thread ----------------------- *)
\* variant: the wait is not skipped after the last attempt
AttemptResult_AlwaysWait(ok, tries, retries) ==
  IF ok THEN "restarted"
  ELSE "sleep"

\* variant: the `return` after a successful restart is missing, so the loop
\* goes on while attempts remain
AttemptResult_NoReturn(ok, tries, retries) ==
  IF ok /\ tries = retries THEN "restarted"
  ELSE IF tries # retries THEN "sleep"
  ELSE "failed"

\* watchdog.py:161-167  the branch taken after one restart command
AttemptResult(ok, tries, retries) ==
  IF ok THEN "restarted"
  ELSE IF tries # retries THEN "sleep"
  ELSE "failed"

\* variant: a worker that ends deletes its own entry from running_threads
WorkerAttempt_SelfReap(w) ==
  /\ workers[w].pc = "attempt"
  /\ \E ok \in BOOLEAN :
       LET me == workers[w]
           branch == AttemptResult(ok, me.tries, me.retries)
           ran == [me EXCEPT !.cmds = @ + 1,
                     !.succeededAt = IF ok /\ @ = 0 THEN me.cmds + 1 ELSE @]
       IN /\ workers' = [workers EXCEPT ![w] =
               CASE branch = "restarted" ->
                      [ran EXCEPT !.pc = "done",
                         !.outcome = [text |-> "restarted after",
                                      times |-> me.tries]]
                 [] branch = "sleep" -> [ran EXCEPT !.pc = "sleep"]
                 [] OTHER ->
                      [ran EXCEPT !.pc = "done",
                         !.outcome = [text |-> "failed after",
                                      times |-> me.retries]]]
          /\ running_threads' =
               IF branch = "sleep" THEN running_threads
               ELSE [n \in DOMAIN running_threads \ {me.name}
                       |-> running_threads[n]]
  /\ UNCHANGED <<now, pc, exitStatus, error, config, cycle, lastCall>>
  /\ UNCHANGED <<idx, cycleLog, lastProbe, sleptFor>>
  /\ UNCHANGED fetcherVars

\* watchdog.py:160-167  one restart command of worker w and what follows it
WorkerAttempt(w) ==
  /\ workers[w].pc = "attempt"
  /\ \E ok \in BOOLEAN :
       LET me == workers[w]
           branch == AttemptResult(ok, me.tries, me.retries)
           ran == [me EXCEPT !.cmds = @ + 1,
                     !.succeededAt = IF ok /\ @ = 0 THEN me.cmds + 1 ELSE @]
       IN workers' = [workers EXCEPT ![w] =
            CASE branch = "restarted" ->
                   [ran EXCEPT !.pc = "done",
                      !.outcome = [text |-> "restarted after",
                                   times |-> me.tries]]
              [] branch = "sleep" -> [ran EXCEPT !.pc = "sleep"]
              [] OTHER ->
                   [ran EXCEPT !.pc = "done",
                      !.outcome = [text |-> "failed after",
                                   times |-> me.retries]]]
  /\ UNCHANGED <<now, pc, exitStatus, error, config, cycle, lastCall>>
  /\ UNCHANGED loopVars
  /\ UNCHANGED fetcherVars

\* watchdog.py:165, 160  time.sleep(wait_time) returns, next loop iteration
WorkerWake(w) ==
  /\ workers[w].pc = "sleep"
  /\ workers' = [workers EXCEPT ![w] =
        [@ EXCEPT !.sleeps = @ + 1,
                  !.tries = @ + 1,
                  !.pc = IF workers[w].tries + 1 <= workers[w].retries
                         THEN "attempt" ELSE "done"]]
  /\ UNCHANGED <<now, pc, exitStatus, error, config, cycle, lastCall>>
  /\ UNCHANGED loopVars
  /\ UNCHANGED fetcherVars

(* ------------------------------ environment ---------------------------- *)
\* the process is held up for longer than it asked for: waiting for the pid
\* lock before run_daemon, or oversleeping in time.sleep.  The clock is read
\* only by get_config, so a delay anywhere else in a cycle shows there too.
Elapse ==
  /\ pc \in {"daemonize", "get_config"}
  /\ \E d \in Delays :
       /\ now + d <= MaxTime
       /\ now' = now + d
  /\ UNCHANGED <<pc, exitStatus, error, config, cycle, workers, lastCall>>
  /\ UNCHANGED loopVars
  /\ UNCHANGED fetcherVars

(* ---------------------------- specification ---------------------------- *)
Init ==
  /\ now = 0
  /\ pc = "startup"
  /\ exitStatus = -1
  /\ error = "none"
  /\ _config = NoConfig
  /\ _lastUpdated = NoTime
  /\ config = NoConfig
  /\ running_threads = <<>>
  /\ idx = 1
  /\ cycle = 0
  /\ cycleLog = <<>>
  /\ workers = <<>>
  /\ lastCall = NoCall
  /\ lastProbe = NoProbe
  /\ sleptFor = 0

Next ==
  \/ CheckForConfig
  \/ EnterDaemon
  \/ GetConfig
  \/ Reap
  \/ ProbeService
  \/ Sleep
  \/ \E w \in 1..Len(workers) : WorkerAttempt(w)
  \/ \E w \in 1..Len(workers) : WorkerWake(w)
  \/ Elapse

Spec == Init /\ [][Next]_vars

(* ------------------------------ properties ----------------------------- *)
Workers == 1..Len(workers)
Live == {w \in Workers : is_alive(w)}
BornIn(c, n) == {w \in Workers : workers[w].born = c /\ workers[w].name = n}
HasDuplicates(seq) ==
  \E i, j \in 1..Len(seq) : i # j /\ seq[i] = seq[j]

\* C1: at any instant at most one started, not yet terminated restart worker
\* exists per service name, also when the service list names a service twice.
C1_OneLiveWorkerPerService ==
  \A w1, w2 \in Live : workers[w1].name = workers[w2].name => w1 = w2

\* the second occurrence of a duplicated name was probed down while the worker
\* started for the first occurrence in the same cycle was still running
C1_Witness ==
  /\ pc = "probe"
  /\ HasDuplicates(services)
  /\ idx > Len(services)
  /\ ~lastProbe.ok /\ lastProbe.hadEntry /\ lastProbe.entryAlive
  /\ lastProbe.cycle = cycle
  /\ \E w \in Live : workers[w].name = lastProbe.name
                       /\ workers[w].born = cycle

\* C2: with N >= 1 attempts, a worker whose restart command has failed every
\* time issues at most N commands, never waits after the N-th, and once
\* terminated has issued exactly N commands, slept exactly N-1 times and
\* recorded "failed after N restarts".
C2_AlwaysFailingWorker ==
  \A w \in Workers :
    LET me == workers[w] IN
      (me.retries >= 1 /\ me.succeededAt = 0) =>
        /\ me.cmds <= me.retries
        /\ me.sleeps <= me.retries - 1
        /\ me.pc = "sleep" => me.cmds < me.retries
        /\ me.cmds = me.retries => me.pc = "done"
        /\ me.pc = "done" =>
             /\ me.cmds = me.retries
             /\ me.sleeps = me.retries - 1
             /\ me.outcome = [text |-> "failed after", times |-> me.retries]

\* one worker with N >= 2 and one with N = 1 have both failed on every
\* attempt and used up their budgets
C2_Witness ==
  /\ \E w \in Workers :
       /\ workers[w].retries >= 2
       /\ workers[w].pc = "done"
       /\ workers[w].succeededAt = 0
       /\ workers[w].outcome.text = "failed after"
  /\ \E w \in Workers :
       /\ workers[w].retries = 1
       /\ workers[w].pc = "done"
       /\ workers[w].succeededAt = 0
       /\ workers[w].sleeps = 0
       /\ workers[w].outcome.text = "failed after"

\* C3: a worker whose restart command first succeeds on attempt k <= N has
\* issued exactly k commands, slept exactly k-1 times, recorded "restarted
\* after k times" and is terminated, so it issues no further command.
C3_SucceedingWorker ==
  \A w \in Workers :
    LET me == workers[w] IN
      me.succeededAt >= 1 =>
        /\ me.succeededAt <= me.retries
        /\ me.cmds = me.succeededAt
        /\ me.sleeps = me.succeededAt - 1
        /\ me.pc = "done"
        /\ me.outcome = [text |-> "restarted after",
                         times |-> me.succeededAt]

\* a worker succeeded on its second attempt with one attempt left unused
C3_Witness ==
  \E w \in Workers :
    /\ workers[w].succeededAt = 2
    /\ workers[w].retries = 3
    /\ workers[w].pc = "done"

\* a step of the main thread that runs the loop body for services[idx]
IsProbeStep == pc = "probe" /\ idx <= Len(services) /\ idx' = idx + 1

\* C4: a configured service probed down while its name has no registry entry
\* gets exactly one worker started and registered under its name in that
\* cycle, and "<name> is down" is logged in that cycle.
C4_DownSpawnsOne ==
  [][(IsProbeStep /\ ~lastProbe'.ok
        /\ services[idx] \notin DOMAIN running_threads) =>
       LET n == services[idx] IN
         /\ Len(workers') = Len(workers) + 1
         /\ SubSeq(workers', 1, Len(workers)) = workers
         /\ workers'[Len(workers')].name = n
         /\ workers'[Len(workers')].cmds = 0
         /\ n \in DOMAIN running_threads'
         /\ running_threads'[n] = Len(workers')
         /\ cycleLog' = Append(cycleLog, DownRecord(n))
         /\ Cardinality({w \in 1..Len(workers') :
               workers'[w].born = cycle /\ workers'[w].name = n}) = 1]_vars

\* a service without registry entry was just probed down and its worker runs
C4_Witness ==
  /\ pc = "probe"
  /\ lastProbe.cycle = cycle
  /\ ~lastProbe.ok /\ ~lastProbe.hadEntry
  /\ lastProbe.name \in DOMAIN running_threads
  /\ workers[running_threads[lastProbe.name]].born = cycle
  /\ DownRecord(lastProbe.name) \in {cycleLog[i] : i \in 1..Len(cycleLog)}

BeingRestartedRecord(n) ==
  [level |-> "info", text |-> "is being restarted", name |-> n]
RunningRecord(n) == [level |-> "info", text |-> "is running", name |-> n]

\* the loop body runs for a service whose worker, started in the previous
\* cycle, is registered and still alive
IsRestartingStep ==
  /\ IsProbeStep
  /\ services[idx] \in DOMAIN running_threads
  /\ is_alive(running_threads[services[idx]])
  /\ workers[running_threads[services[idx]]].born = cycle - 1

\* C5 as stated: a service probed down in cycle t+1 while the worker started
\* for it in cycle t is still alive gets "<name> is being restarted" logged
\* and no second worker.
C5_AsStated ==
  [][(IsRestartingStep /\ ~lastProbe'.ok) =>
       /\ cycleLog' = Append(cycleLog, BeingRestartedRecord(services[idx]))
       /\ workers' = workers]_vars

\* C5 (amended): a service probed down in cycle t+1 while the worker started
\* for it in cycle t is still alive gets no second worker, keeps its registry
\* entry, and nothing is logged for it.
C5_DownWhileRestarting ==
  [][(IsRestartingStep /\ ~lastProbe'.ok) =>
       /\ workers' = workers
       /\ running_threads' = running_threads
       /\ cycleLog' = cycleLog]_vars

\* a service was probed down while last cycle's worker for it was alive
C5_Witness ==
  /\ pc = "probe"
  /\ lastProbe.cycle = cycle
  /\ ~lastProbe.ok /\ lastProbe.hadEntry /\ lastProbe.entryAlive
  /\ lastProbe.name \in DOMAIN running_threads
  /\ workers[running_threads[lastProbe.name]].born = cycle - 1

\* C6 as stated: a configured service without registry entry that is probed
\* running gets no worker and "<name> is running" is logged.
C6_AsStated ==
  [][(IsProbeStep /\ lastProbe'.ok
        /\ services[idx] \notin DOMAIN running_threads) =>
       /\ workers' = workers
       /\ cycleLog' = Append(cycleLog, RunningRecord(services[idx]))]_vars

\* C6 (amended): a configured service without registry entry that is probed
\* running gets no worker and no registry entry, and nothing is logged for it.
C6_RunningSpawnsNone ==
  [][(IsProbeStep /\ lastProbe'.ok
        /\ services[idx] \notin DOMAIN running_threads) =>
       /\ workers' = workers
       /\ running_threads' = running_threads
       /\ cycleLog' = cycleLog]_vars

\* a service without registry entry was just probed running
C6_Witness ==
  /\ pc = "probe"
  /\ lastProbe.cycle = cycle
  /\ lastProbe.ok /\ ~lastProbe.hadEntry
  /\ lastProbe.name \notin DOMAIN running_threads

\* C7: every get_config call performs one remote fetch if no fetch has ever
\* succeeded or the cached copy is older than 900 seconds, and otherwise
\* performs none, raises nothing, returns the cached configuration and leaves
\* it and its timestamp as they were.
C7_FetchOnlyWhenStale ==
  lastCall.caller # "none" =>
    /\ lastCall.fetched \in {0, 1}
    /\ lastCall.fetched = 1 <=>
         \/ lastCall.prevUpdated = NoTime
         \/ lastCall.at - lastCall.prevUpdated > 900
    /\ lastCall.fetched = 0 =>
         /\ lastCall.outcome = "nofetch"
         /\ lastCall.raised = "none"
         /\ lastCall.returned = lastCall.prevConfig
         /\ lastCall.returned # NoConfig
         /\ _config = lastCall.prevConfig
         /\ _lastUpdated = lastCall.prevUpdated

\* the supervision loop called get_config when the copy was exactly 900
\* seconds old and no fetch was made
C7_Witness ==
  /\ lastCall.caller = "run_daemon"
  /\ lastCall.prevUpdated # NoTime
  /\ lastCall.at - lastCall.prevUpdated = 900
  /\ lastCall.fetched = 0

\* the first call after the copy got older than 900 seconds fetched once
C7_WitnessRefetch ==
  /\ lastCall.caller = "run_daemon"
  /\ lastCall.prevUpdated # NoTime
  /\ lastCall.at - lastCall.prevUpdated = 910
  /\ lastCall.fetched = 1
  /\ lastCall.outcome = "ok"
  /\ _lastUpdated = lastCall.at

\* C8: when the remote fetch inside get_config fails (row not found or store
\* unreachable) the call raises the matching exception to its caller and the
\* cached configuration and the last-fetch timestamp stay as before the call.
C8_FailedFetchKeepsCache ==
  (lastCall.fetched = 1 /\ lastCall.outcome \in {"notfound", "unreachable"}) =>
    /\ lastCall.raised = IF lastCall.outcome = "notfound"
                         THEN "KeyError" ELSE "EndpointConnectionError"
    /\ lastCall.returned = NoConfig
    /\ _config = lastCall.prevConfig
    /\ _lastUpdated = lastCall.prevUpdated

\* a fetch failed in the supervision loop while a configuration was cached
C8_Witness ==
  /\ lastCall.caller = "run_daemon"
  /\ lastCall.fetched = 1
  /\ lastCall.outcome \in {"notfound", "unreachable"}
  /\ lastCall.prevConfig # NoConfig
  /\ _config = lastCall.prevConfig

\* C9 as stated: in every cycle, the first included, whose fetch finds the
\* store unreachable while a configuration was fetched before, a warning is
\* logged, the cycle runs on that configuration and the daemon goes on.
C9_AsStated ==
  (/\ lastCall.caller = "run_daemon"
   /\ lastCall.fetched = 1
   /\ lastCall.outcome = "unreachable"
   /\ lastCall.prevConfig # NoConfig) =>
    /\ cycleLog # <<>> /\ cycleLog[1] = WarnRecord
    /\ config = lastCall.prevConfig
    /\ pc # "crashed"
    /\ error = "none"

\* C10: if the configuration cannot be loaded at startup (no row, or store
\* unreachable), the process has exited with a non-zero status and run_daemon
\* is never entered: no cycle, no probe, no worker.
C10_StartupFailureExits ==
  (/\ lastCall.caller = "check_for_config"
   /\ lastCall.outcome \in {"notfound", "unreachable"}) =>
    /\ pc = "exited"
    /\ exitStatus = 1
    /\ cycle = 0
    /\ lastProbe = NoProbe
    /\ workers = <<>>
    /\ running_threads = <<>>
    /\ config = NoConfig

\* the startup check found the store unreachable and the process exited
C10_Witness ==
  /\ pc = "exited"
  /\ lastCall.caller = "check_for_config"
  /\ lastCall.outcome = "unreachable"
  /\ lastCall.raised = "EndpointConnectionError"

\* C11 as stated: once run_daemon's loop has been entered, no outcome of the
\* configuration store, of a probe or of a restart command ends the main
\* thread: it is never stopped by an exception.
C11_AsStated ==
  cycle >= 1 => (pc \in {"get_config", "reap", "probe"} /\ error = "none")

\* C13 as stated: the sleep that ends a cycle lasts the check interval
\* (numOfSecCheck) of the configuration the cycle ran with.
C13_AsStated ==
  (pc = "get_config" /\ cycle >= 1) =>
    sleptFor = ConfigRows[config].numOfSecCheck

(* --------------------------- fair scheduling --------------------------- *)
\* the steps of the main thread
MainThread ==
  CheckForConfig \/ EnterDaemon \/ GetConfig \/ Reap \/ ProbeService \/ Sleep

\* the steps of worker thread w
WorkerThread(w) ==
  w <= Len(workers) /\ (WorkerAttempt(w) \/ WorkerWake(w))

\* every thread that can run eventually runs; the environment (store, probe
\* and command results, delays) is left free
FairSpec ==
  /\ Spec
  /\ WF_vars(MainThread)
  /\ \A w \in 1..MaxWorkers : WF_vars(WorkerThread(w))

\* worker w used up its attempts
Exhausted(w) ==
  w <= Len(workers) /\ workers[w].outcome.text = "failed after"

\* a worker was started for w's service after w
Replaced(w) ==
  /\ w <= Len(workers)
  /\ \E w2 \in (w + 1)..Len(workers) : workers[w2].name = workers[w].name

\* w's service did not stay down, or is no longer configured
NotDownAnyMore(w) ==
  /\ w <= Len(workers)
  /\ \/ lastProbe.name = workers[w].name /\ lastProbe.ok
     \/ config # NoConfig
          /\ \A i \in 1..Len(services) : services[i] # workers[w].name

\* another cycle, another sleep and another worker are within the explored
\* bounds
Room ==
  /\ cycle < MaxCycles
  /\ now + iteration_time <= MaxTime
  /\ Len(workers) < MaxWorkers

\* C12 as stated: after a worker ends with exhaustion and the service stays
\* down, under fair scheduling a new worker is eventually started for that
\* service in a later cycle (as long as the explored bounds leave room for
\* one).
C12_AsStated ==
  \A w \in 1..MaxWorkers :
    (Exhausted(w) /\ Room) ~>
      (Replaced(w) \/ NotDownAnyMore(w) \/ Len(workers) = MaxWorkers)

\* C14: a registry entry is removed or replaced only by the reap step and
\* only if its worker has terminated, and a reap step leaves no entry whose
\* worker has terminated.
C14_ReapOnlyTerminated ==
  [][/\ \A n \in DOMAIN running_threads :
          (n \notin DOMAIN running_threads'
             \/ running_threads'[n] # running_threads[n]) =>
            /\ pc = "reap" /\ pc' = "probe"
            /\ ~is_alive(running_threads[n])
     /\ (pc = "reap" /\ pc' = "probe") =>
          /\ \A n \in DOMAIN running_threads :
               ~is_alive(running_threads[n]) => n \notin DOMAIN running_threads'
          /\ \A n \in DOMAIN running_threads' :
               n \in DOMAIN running_threads
                 /\ running_threads'[n] = running_threads[n]]_vars

\* a reap step has just dropped the entry of a terminated worker and kept the
\* entry of a running one
C14_Witness ==
  /\ pc = "probe" /\ idx = 1 /\ cycle >= 2
  /\ \E w \in Workers :
       /\ ~is_alive(w)
       /\ workers[w].born = cycle - 1
       /\ workers[w].name \notin DOMAIN running_threads
  /\ \E w \in Live :
       /\ workers[w].name \in DOMAIN running_threads
       /\ running_threads[workers[w].name] = w

\* the loop body runs for a service whose registered worker is still alive
IsLiveEntryStep ==
  /\ IsProbeStep
  /\ services[idx] \in DOMAIN running_threads
  /\ is_alive(running_threads[services[idx]])

\* C15 as stated: for a service with a live registry entry the loop issues no
\* status command and starts no worker in that cycle.
C15_AsStated ==
  [][IsLiveEntryStep => (~lastProbe'.probed /\ workers' = workers)]_vars

\* C15 (amended): the status command is issued for every configured service
\* in every cycle, also for one with a live registry entry; for such a
\* service the loop starts no worker, keeps the entry and logs nothing.
C15_ProbesEveryService ==
  [][/\ IsProbeStep =>
          (lastProbe'.probed /\ lastProbe'.name = services[idx])
     /\ IsLiveEntryStep =>
          /\ workers' = workers
          /\ running_threads' = running_threads
          /\ cycleLog' = cycleLog]_vars

\* the status command was run for a service whose worker was alive, and it
\* reported the service running
C15_Witness ==
  /\ pc = "probe"
  /\ lastProbe.cycle = cycle
  /\ lastProbe.probed /\ lastProbe.ok
  /\ lastProbe.hadEntry /\ lastProbe.entryAlive

\* C16: the main thread never waits for a worker: inside a cycle its next
\* step (reap, the next loop body, or the end-of-cycle sleep) can always be
\* taken, whatever the workers are doing (the sleep as long as the explored
\* clock values allow it).
C16_LoopNeverWaits ==
  (pc \in {"reap", "probe"} /\ now + iteration_time <= MaxTime) =>
    ENABLED (Reap \/ ProbeService \/ Sleep)

\* a later cycle is under way while the workers started in the previous cycle
\* for two different services are both still between or in their attempts
C16_Witness ==
  /\ pc = "probe"
  /\ cycle >= 2
  /\ \E w1, w2 \in Live :
       /\ workers[w1].name # workers[w2].name
       /\ workers[w1].born < cycle
       /\ workers[w2].born < cycle
       /\ workers[w1].pc = "sleep"
       /\ workers[w2].pc = "attempt"

\* a worker that has recorded nothing yet
NoOutcome == [text |-> "none", times |-> 0]

\* C17: under fair scheduling every worker started with N >= 1 eventually
\* terminates (no worker thread exists for ever without being terminated,
\* and termination is final); it has recorded no outcome while it runs and exactly one,
\* success or exhaustion, once it has terminated, after at most N restart
\* commands, and a terminated worker never changes again.
C17_WorkerTerminatesOnce ==
  /\ \A w \in 1..MaxWorkers :
       []<>(\/ w > Len(workers)
            \/ workers[w].retries < 1
            \/ workers[w].pc = "done")
  /\ [](\A w \in Workers :
          workers[w].retries >= 1 =>
            /\ workers[w].cmds <= workers[w].retries
            /\ workers[w].pc # "done" => workers[w].outcome = NoOutcome
            /\ workers[w].pc = "done" =>
                 \/ /\ workers[w].outcome.text = "restarted after"
                    /\ workers[w].succeededAt >= 1
                 \/ /\ workers[w].outcome.text = "failed after"
                    /\ workers[w].succeededAt = 0)
  /\ [][\A w \in Workers :
          workers[w].pc = "done" => workers'[w] = workers[w]]_vars

\* one worker has terminated with success and another with exhaustion
C17_Witness ==
  /\ \E w \in Workers :
       workers[w].pc = "done" /\ workers[w].outcome.text = "restarted after"
  /\ \E w \in Workers :
       workers[w].pc = "done" /\ workers[w].outcome.text = "failed after"

\* a step of a worker thread: an existing thread record changes
IsWorkerStep ==
  /\ Len(workers') = Len(workers)
  /\ workers' # workers

\* C18: no step of a restart worker (command, sleep, outcome record,
\* termination) changes the registry, the cached configuration or the
\* last-fetch timestamp; a terminated worker's entry stays until the main
\* thread reaps it.
C18_WorkersLeaveRegistryAlone ==
  [][IsWorkerStep =>
       /\ running_threads' = running_threads
       /\ _config' = _config
       /\ _lastUpdated' = _lastUpdated
       /\ config' = config
       /\ pc' = pc]_vars

\* a worker has terminated and its entry is still in the registry
C18_Witness ==
  \E w \in Workers :
    /\ workers[w].pc = "done"
    /\ workers[w].outcome # NoOutcome
    /\ workers[w].name \in DOMAIN running_threads
    /\ running_threads[workers[w].name] = w

\* a step in which get_config is called (by check_for_config or run_daemon)
IsCallStep ==
  \/ pc = "startup" /\ pc' # "startup"
  \/ pc = "get_config" /\ cycle' = cycle + 1

IsDeadEntryStep ==
  /\ IsProbeStep
  /\ services[idx] \in DOMAIN running_threads
  /\ ~is_alive(running_threads[services[idx]])

\* C20: an entry whose worker terminated after the reap step of a cycle still
\* blocks spawning in that cycle: a down probe of its service starts no
\* worker and leaves the entry in place, so two workers for one service are
\* never started in the same cycle and the replacement comes in a later one.
C20_DeadEntryStillBlocks ==
  /\ [][(IsDeadEntryStep /\ ~lastProbe'.ok) =>
          /\ workers' = workers
          /\ running_threads' = running_threads
          /\ cycleLog' = cycleLog]_vars
  /\ [](\A w1, w2 \in Workers :
          (w1 < w2 /\ workers[w1].name = workers[w2].name) =>
            workers[w1].born < workers[w2].born)

\* a service was probed down while its entry named a worker that had already
\* terminated in this cycle, and no worker was started for it
C20_Witness ==
  /\ pc = "probe"
  /\ lastProbe.cycle = cycle
  /\ ~lastProbe.ok /\ lastProbe.hadEntry /\ ~lastProbe.entryAlive
  /\ lastProbe.name \in DOMAIN running_threads
  /\ workers[running_threads[lastProbe.name]].pc = "done"
  /\ workers[running_threads[lastProbe.name]].born = cycle
  /\ Cardinality(BornIn(cycle, lastProbe.name)) = 1

====
